---- MODULE Spec2Model ----
(***************************************************************************)
(* Model of the log-error crate (src/lib.rs): the LogError extension trait *)
(* for Result and Option, its seven public operations and the private      *)
(* log_message helper that builds the record handed to the global logger.  *)
(*                                                                         *)
(* Strings are sequences of one-character strings, Option<T> is a sequence *)
(* of length at most one (<<>> is None, <<v>> is Some(v)).                 *)
(***************************************************************************)
EXTENDS Integers, Sequences, FiniteSets, TLC

VARIABLES
    file,      \* source file of the user code that calls the operations
    sink,      \* records received by the global logger, in order
    fmtCalls,  \* total number of invocations of a format function
    calls      \* one entry per completed public operation, in order

vars == <<file, sink, fmtCalls, calls>>

\* ------------------------------------------------------------------ bounds
MaxOps == 2
MaxPathLen == 3

\* ----------------------------------------------------------------- strings
Str_ctx == <<"c", "t", "x">>
Str_boom == <<"b", "o", "o", "m">>
Str_None == <<"N", "o", "n", "e">>
Str_sep == <<":", " ">>
Str_write_failed == <<"w", "f", ":", " ">>
Str_failed == <<"f", "a", "i", "l", "e", "d">>

LibFile == <<"s", "r", "c", "/", "l", "i", "b", ".", "r", "s">>

\* ------------------------------------------------------ values and payloads
StrP(s) == [kind |-> "str", text |-> s, num |-> 0]
IntP(n) == [kind |-> "int", text |-> <<>>, num |-> n]

Ok(v) == [shape |-> "Result", ok |-> TRUE, val |-> v, err |-> StrP(<<>>)]
Err(e) == [shape |-> "Result", ok |-> FALSE, val |-> 0, err |-> e]
SomeV(v) == [shape |-> "Option", ok |-> TRUE, val |-> v, err |-> StrP(<<>>)]
NoneV == [shape |-> "Option", ok |-> FALSE, val |-> 0, err |-> StrP(<<>>)]

Level == {"Error", "Warn", "Info", "Debug", "Trace"}

\* --------------------------------------------------------------- formatting
Digit(d) == <<"0", "1", "2", "3", "4", "5", "6", "7", "8", "9">>[d + 1]

RECURSIVE IntToStr(_)
IntToStr(n) == IF n < 10 THEN <<Digit(n)>> ELSE IntToStr(n \div 10) \o <<Digit(n % 10)>>

EscapeDebug(c) ==
    CASE c = "\"" -> <<"\\", "\"">>
      [] c = "\\" -> <<"\\", "\\">>
      [] c = "\n" -> <<"\\", "n">>
      [] OTHER -> <<c>>

RECURSIVE EscapeAll(_)
EscapeAll(s) == IF s = <<>> THEN <<>> ELSE EscapeDebug(Head(s)) \o EscapeAll(Tail(s))

\* "{err}"
Display(e) == IF e.kind = "str" THEN e.text ELSE IntToStr(e.num)

\* "{err:#?}"
DebugDump(e) == IF e.kind = "str" THEN <<"\"">> \o EscapeAll(e.text) \o <<"\"">> ELSE IntToStr(e.num)

\* ------------------------------------------------------------------ closures
UserFmt(k) == [kind |-> k, msg |-> <<>>]
DisplayClosure(msg) == [kind |-> "display", msg |-> msg]
DebugClosure(msg) == [kind |-> "debug", msg |-> msg]
NoCb == [kind |-> "none", msg |-> <<>>]

ApplyCb(cb, e) ==
    CASE cb.kind = "display" -> cb.msg \o Str_sep \o Display(e)
      [] cb.kind = "debug" -> cb.msg \o Str_sep \o DebugDump(e)
      [] cb.kind = "user_wf" -> Str_write_failed \o Display(e)
      [] OTHER -> Str_failed

\* ------------------------------------------------------------ caller location
\* Variant: log_warn_with without its #[track_caller] attribute.
TrackCaller_WarnWithUntracked ==
    {"log_error_with", "log_error", "log_error_detail",
     "log_warn", "log_warn_detail", "Result::log_level_with",
     "Option::log_level_with", "log_message"}

TrackCaller ==
    {"log_error_with", "log_warn_with", "log_error", "log_error_detail",
     "log_warn", "log_warn_detail", "Result::log_level_with",
     "Option::log_level_with", "log_message"}

Loc(f, l) == [file |-> f, line |-> l]
Here(l) == Loc(LibFile, l)

\* The location a function sees as its caller: the one handed down when the
\* function is #[track_caller], else the place of the expression itself.
CallerLoc(fn, loc, here) == IF fn \in TrackCaller THEN loc ELSE here

\* ---------------------------------------------------------------- log_message
\* Variant: only '/' counts as a path separator.
IsSep_SlashOnly(c) == c = "/"

IsSep(c) == c = "/" \/ c = "\\"

RECURSIVE RFindFrom(_, _)
RFindFrom(s, i) ==
    IF i = 0 THEN <<>>
    ELSE IF IsSep(s[i]) THEN <<i - 1>>
    ELSE RFindFrom(s, i - 1)

RFindSep(s) == RFindFrom(s, Len(s))

ModuleStart(f) == IF RFindSep(f) = <<>> THEN 0 ELSE 1 + RFindSep(f)[1]

Outcome(ret, args, recs, p) == [ret |-> ret, fmtArgs |-> args, records |-> recs, panicked |-> p]

\* Variant: the record's level is always Error.
log_message_FixedLevel(level, msg, loc) ==
    LET l == CallerLoc("log_message", loc, Here(98))
        start == ModuleStart(l.file)
    IN  [panicked |-> FALSE,
         records |-> <<[args |-> msg, file |-> l.file, line |-> l.line, level |-> "Error",
                        module_path |-> SubSeq(l.file, start + 1, Len(l.file))]>>]

\* Variant: the message carries the line number of the call.
log_message_LineInMsg(level, msg, loc) ==
    LET l == CallerLoc("log_message", loc, Here(98))
        start == ModuleStart(l.file)
    IN  [panicked |-> FALSE,
         records |-> <<[args |-> msg \o IntToStr(l.line), file |-> l.file, line |-> l.line,
                        level |-> level,
                        module_path |-> SubSeq(l.file, start + 1, Len(l.file))]>>]

log_message(level, msg, loc) ==
    LET l == CallerLoc("log_message", loc, Here(98))
        start == ModuleStart(l.file)
    IN  IF start > Len(l.file)
        THEN [panicked |-> TRUE, records |-> <<>>]
        ELSE [panicked |-> FALSE,
              records |-> <<[args |-> msg,
                             file |-> l.file,
                             line |-> l.line,
                             level |-> level,
                             module_path |-> SubSeq(l.file, start + 1, Len(l.file))]>>]

\* ------------------------------------------------------------------ the impls
\* Variant: the success value is dropped.
ResultLogLevelWith_DropsValue(self, level, cb, loc) ==
    IF self.ok
    THEN Outcome(<<>>, <<>>, <<>>, FALSE)
    ELSE LET msg == ApplyCb(cb, self.err)
             m == log_message(level, msg, CallerLoc("Result::log_level_with", loc, Here(74)))
         IN  Outcome(<<>>, <<self.err>>, m.records, m.panicked)

\* Variant: the message is formatted but never handed to log_message.
ResultLogLevelWith_Silent(self, level, cb, loc) ==
    IF self.ok
    THEN Outcome(<<self.val>>, <<>>, <<>>, FALSE)
    ELSE Outcome(<<>>, <<self.err>>, <<>>, FALSE)

ResultLogLevelWith(self, level, cb, loc) ==
    IF self.ok
    THEN Outcome(<<self.val>>, <<>>, <<>>, FALSE)
    ELSE LET msg == ApplyCb(cb, self.err)
             m == log_message(level, msg, CallerLoc("Result::log_level_with", loc, Here(74)))
         IN  Outcome(<<>>, <<self.err>>, m.records, m.panicked)

\* Variant: the format function gets the empty string for None.
OptionLogLevelWith_EmptyPayload(self, level, cb, loc) ==
    IF self.ok
    THEN Outcome(<<self.val>>, <<>>, <<>>, FALSE)
    ELSE LET msg == ApplyCb(cb, StrP(<<>>))
             m == log_message(level, msg, CallerLoc("Option::log_level_with", loc, Here(89)))
         IN  Outcome(<<>>, <<StrP(<<>>)>>, m.records, m.panicked)

OptionLogLevelWith(self, level, cb, loc) ==
    IF self.ok
    THEN Outcome(<<self.val>>, <<>>, <<>>, FALSE)
    ELSE LET msg == ApplyCb(cb, StrP(Str_None))
             m == log_message(level, msg, CallerLoc("Option::log_level_with", loc, Here(89)))
         IN  Outcome(<<>>, <<StrP(Str_None)>>, m.records, m.panicked)

log_level_with(self, level, cb, loc) ==
    IF self.shape = "Result"
    THEN ResultLogLevelWith(self, level, cb, loc)
    ELSE OptionLogLevelWith(self, level, cb, loc)

\* ---------------------------------------------------- trait default methods
\* Variant: log_error_with logs at Warn.
log_error_with_Warn(self, cb, loc) ==
    log_level_with(self, "Warn", cb, CallerLoc("log_error_with", loc, Here(15)))

log_error_with(self, cb, loc) ==
    log_level_with(self, "Error", cb, CallerLoc("log_error_with", loc, Here(15)))

log_warn_with(self, cb, loc) ==
    log_level_with(self, "Warn", cb, CallerLoc("log_warn_with", loc, Here(22)))

log_error(self, msg, loc) ==
    log_error_with(self, DisplayClosure(msg), CallerLoc("log_error", loc, Here(32)))

\* Variant: log_error_detail formats with "{err}".
log_error_detail_UsesDisplay(self, msg, loc) ==
    log_error_with(self, DisplayClosure(msg), CallerLoc("log_error_detail", loc, Here(42)))

log_error_detail(self, msg, loc) ==
    log_error_with(self, DebugClosure(msg), CallerLoc("log_error_detail", loc, Here(42)))

\* Variant: log_warn formats with "{err:#?}".
log_warn_UsesDebug(self, msg, loc) ==
    log_warn_with(self, DebugClosure(msg), CallerLoc("log_warn", loc, Here(52)))

log_warn(self, msg, loc) ==
    log_warn_with(self, DisplayClosure(msg), CallerLoc("log_warn", loc, Here(52)))

log_warn_detail(self, msg, loc) ==
    log_warn_with(self, DebugClosure(msg), CallerLoc("log_warn_detail", loc, Here(62)))

\* ------------------------------------------------------------- the user code
\* The n-th call of the user program sits on its own line of the user's file.
UserSite == Loc(file, 10 + Len(calls))

\* A finished operation: its arguments, where it was called, what it did.
Finish(op, value, level, cb, msg, out) ==
    /\ Len(calls) < MaxOps
    /\ sink' = sink \o out.records
    /\ fmtCalls' = fmtCalls + Len(out.fmtArgs)
    /\ calls' = Append(calls, [op |-> op, value |-> value, level |-> level, cb |-> cb,
                               msg |-> msg, site |-> UserSite, ret |-> out.ret,
                               fmtArgs |-> out.fmtArgs, records |-> out.records,
                               panicked |-> out.panicked])
    /\ UNCHANGED file

CallLogLevelWith(value, level, cb) ==
    Finish("log_level_with", value, level, cb, <<>>, log_level_with(value, level, cb, UserSite))

CallLogErrorWith(value, cb) ==
    Finish("log_error_with", value, "-", cb, <<>>, log_error_with(value, cb, UserSite))

CallLogWarnWith(value, cb) ==
    Finish("log_warn_with", value, "-", cb, <<>>, log_warn_with(value, cb, UserSite))

CallLogError(value, msg) ==
    Finish("log_error", value, "-", NoCb, msg, log_error(value, msg, UserSite))

CallLogErrorDetail(value, msg) ==
    Finish("log_error_detail", value, "-", NoCb, msg, log_error_detail(value, msg, UserSite))

CallLogWarn(value, msg) ==
    Finish("log_warn", value, "-", NoCb, msg, log_warn(value, msg, UserSite))

CallLogWarnDetail(value, msg) ==
    Finish("log_warn_detail", value, "-", NoCb, msg, log_warn_detail(value, msg, UserSite))

\* ------------------------------------------------------------------- inputs
Values == {Ok(42), SomeV(7), Err(StrP(Str_boom)), Err(IntP(404)), NoneV}
Fmts == {UserFmt("user_wf"), UserFmt("user_const")}
Prefixes == {Str_ctx}
UserFiles ==
    { <<"s", "r", "c", "/", "m", ".", "r", "s">>,
      <<"a", "\\", "b", "/", "c", "\\", "m", ".", "r", "s">>,
      <<"m", ".", "r", "s">> }

InitWith(files) ==
    /\ file \in files
    /\ sink = <<>>
    /\ fmtCalls = 0
    /\ calls = <<>>

Init == InitWith(UserFiles)

Next ==
    \/ \E v \in Values, l \in Level, cb \in Fmts : CallLogLevelWith(v, l, cb)
    \/ \E v \in Values, cb \in Fmts : CallLogErrorWith(v, cb)
    \/ \E v \in Values, cb \in Fmts : CallLogWarnWith(v, cb)
    \/ \E v \in Values, p \in Prefixes : CallLogError(v, p)
    \/ \E v \in Values, p \in Prefixes : CallLogErrorDetail(v, p)
    \/ \E v \in Values, p \in Prefixes : CallLogWarn(v, p)
    \/ \E v \in Values, p \in Prefixes : CallLogWarnDetail(v, p)

Spec == Init /\ [][Next]_vars

\* ------------------------------------------- every call-site path up to a length
PathChars == {"m", "/", "\\"}
Paths == UNION {[1..n -> PathChars] : n \in 1..MaxPathLen}

InitPath == InitWith(Paths)

NextPath ==
    \/ \E v \in {Err(StrP(Str_boom)), NoneV} : CallLogLevelWith(v, "Info", UserFmt("user_const"))
    \/ \E v \in {Err(IntP(404)), SomeV(7)} : CallLogWarn(v, Str_ctx)

SpecPath == InitPath /\ [][NextPath]_vars

\* ------------------------------------------------------------------ properties
Idx == DOMAIN calls
IsFailure(v) == ~v.ok
FailurePayload(v) == IF v.shape = "Option" THEN StrP(Str_None) ELSE v.err
PrefixOps == {"log_error", "log_warn", "log_error_detail", "log_warn_detail"}

\* C1: log_level_with on a success input (Ok(v) or Some(v)), at any severity,
\* returns Some(v) with the original v, never invokes the format function and
\* emits no log record.
C1_SuccessPassThrough ==
    \A i \in Idx :
        (calls[i].op = "log_level_with" /\ calls[i].value.ok)
            => /\ calls[i].ret = <<calls[i].value.val>>
               /\ calls[i].fmtArgs = <<>>
               /\ calls[i].records = <<>>
               /\ ~calls[i].panicked

C1_Witness ==
    \E i \in Idx, j \in Idx :
        /\ calls[i].op = "log_level_with" /\ calls[i].value = Ok(42) /\ calls[i].ret = <<42>>
        /\ calls[j].op = "log_level_with" /\ calls[j].value = SomeV(7) /\ calls[j].ret = <<7>>
        /\ calls[i].level # calls[j].level
        /\ sink = <<>>

\* C2: log_level_with on a failure input (Err(e) or None) at severity L returns
\* None, invokes the format function exactly once and emits exactly one record,
\* of severity L, whose message is the string the format function returned.
C2_FailureLogsOnce ==
    \A i \in Idx :
        (calls[i].op = "log_level_with" /\ IsFailure(calls[i].value))
            => /\ calls[i].ret = <<>>
               /\ Len(calls[i].fmtArgs) = 1
               /\ Len(calls[i].records) = 1
               /\ calls[i].records[1].level = calls[i].level
               /\ calls[i].records[1].args = ApplyCb(calls[i].cb, calls[i].fmtArgs[1])
               /\ calls[i].fmtArgs[1] = FailurePayload(calls[i].value)

C2_Witness ==
    \E i \in Idx :
        /\ calls[i].op = "log_level_with"
        /\ calls[i].value = Err(StrP(Str_boom))
        /\ calls[i].level = "Trace"
        /\ calls[i].cb = UserFmt("user_wf")
        /\ Len(sink) = 1
        /\ sink[1].level = "Trace"
        /\ sink[1].args = <<"w", "f", ":", " ", "b", "o", "o", "m">>

\* C3: whichever operation is applied to None, the payload handed to the format
\* function is the fixed text "None", whatever the severity and the arguments.
C3_NonePlaceholder ==
    \A i \in Idx :
        calls[i].value = NoneV => calls[i].fmtArgs = <<StrP(<<"N", "o", "n", "e">>)>>

C3_Witness ==
    \E i \in Idx, j \in Idx :
        /\ calls[i].value = NoneV /\ calls[i].op = "log_level_with"
        /\ calls[j].value = NoneV /\ calls[j].op \in PrefixOps
        /\ Len(sink) = 2

\* C4: on a failure input with payload e and prefix p, log_error emits exactly
\* one Error record and log_warn exactly one Warn record, each with the message
\* p ++ ": " ++ display(e); both return None.
C4_DisplayMessage ==
    \A i \in Idx :
        (calls[i].op \in {"log_error", "log_warn"} /\ IsFailure(calls[i].value))
            => /\ calls[i].ret = <<>>
               /\ Len(calls[i].records) = 1
               /\ calls[i].records[1].level = (IF calls[i].op = "log_error" THEN "Error" ELSE "Warn")
               /\ calls[i].records[1].args =
                      calls[i].msg \o <<":", " ">> \o Display(FailurePayload(calls[i].value))
               /\ (calls[i].value = Err(StrP(Str_boom)) /\ calls[i].msg = Str_ctx)
                      => calls[i].records[1].args = <<"c", "t", "x", ":", " ", "b", "o", "o", "m">>
               /\ (calls[i].value = Err(IntP(404)) /\ calls[i].msg = Str_ctx)
                      => calls[i].records[1].args = <<"c", "t", "x", ":", " ", "4", "0", "4">>

C4_Witness ==
    \E i \in Idx, j \in Idx :
        /\ calls[i].op = "log_error" /\ calls[i].value = Err(StrP(Str_boom))
        /\ calls[j].op = "log_warn" /\ calls[j].value = Err(IntP(404))
        /\ Len(sink) = 2

\* C5: on a failure input with payload e and prefix p, log_error_detail emits
\* exactly one Error record and log_warn_detail exactly one Warn record, each
\* with the message p ++ ": " ++ the verbose debug dump of e; both return None.
C5_DebugMessage ==
    \A i \in Idx :
        (calls[i].op \in {"log_error_detail", "log_warn_detail"} /\ IsFailure(calls[i].value))
            => /\ calls[i].ret = <<>>
               /\ Len(calls[i].records) = 1
               /\ calls[i].records[1].level =
                      (IF calls[i].op = "log_error_detail" THEN "Error" ELSE "Warn")
               /\ calls[i].records[1].args =
                      calls[i].msg \o <<":", " ">> \o DebugDump(FailurePayload(calls[i].value))
               /\ (calls[i].value = Err(StrP(Str_boom)) /\ calls[i].msg = Str_ctx)
                      => calls[i].records[1].args =
                             <<"c", "t", "x", ":", " ", "\"", "b", "o", "o", "m", "\"">>

C5_Witness ==
    \E i \in Idx, j \in Idx :
        /\ calls[i].op = "log_error_detail" /\ calls[i].value = Err(StrP(Str_boom))
        /\ calls[j].op = "log_warn_detail" /\ calls[j].value = NoneV
        /\ Len(sink) = 2

\* C6: for each of the seven public operations on a failure input, the emitted
\* record's file and line are those of the user's call site, never a place
\* inside the library, however many wrappers the call passes through.
C6_CallSiteLocation ==
    \A i \in Idx :
        IsFailure(calls[i].value)
            => /\ Len(calls[i].records) = 1
               /\ calls[i].records[1].file = calls[i].site.file
               /\ calls[i].records[1].line = calls[i].site.line
               /\ calls[i].site.file = file

C6_Witness ==
    \E i \in Idx, j \in Idx :
        /\ calls[i].op = "log_warn_detail" /\ IsFailure(calls[i].value)
        /\ calls[j].op = "log_level_with" /\ IsFailure(calls[j].value)
        /\ Len(sink) = 2
        /\ sink[1].line # sink[2].line

\* C7: log_error_with(value, f) returns the same value, invokes f as often and
\* emits the same record as log_level_with(value, Error, f) called from the same
\* place, and log_warn_with(value, f) the same as log_level_with(value, Warn, f).
C7_WithWrappersDelegate ==
    \A i \in Idx :
        calls[i].op \in {"log_error_with", "log_warn_with"}
            => LET lvl == IF calls[i].op = "log_error_with" THEN "Error" ELSE "Warn"
                   direct == log_level_with(calls[i].value, lvl, calls[i].cb, calls[i].site)
               IN  /\ calls[i].ret = direct.ret
                   /\ calls[i].fmtArgs = direct.fmtArgs
                   /\ calls[i].records = direct.records
                   /\ \A r \in {calls[i].records[k] : k \in DOMAIN calls[i].records} : r.level = lvl

C7_Witness ==
    \E i \in Idx, j \in Idx :
        /\ calls[i].op = "log_error_with" /\ IsFailure(calls[i].value)
        /\ calls[j].op = "log_warn_with" /\ IsFailure(calls[j].value)
        /\ Len(sink) = 2
        /\ sink[1].level # sink[2].level

\* C8: after any sequence of operations, the number of format-function
\* invocations equals the number of records in the sink, and both equal the
\* number of operations whose input was a failure; no operation accounts for
\* more than one invocation or more than one record.
C8_OnePerFailure ==
    /\ fmtCalls = Len(sink)
    /\ Len(sink) = Cardinality({i \in Idx : IsFailure(calls[i].value)})
    /\ \A i \in Idx : Len(calls[i].fmtArgs) <= 1 /\ Len(calls[i].records) <= 1

C8_Witness ==
    /\ Len(calls) = MaxOps
    /\ \E i \in Idx : IsFailure(calls[i].value)
    /\ \E i \in Idx : calls[i].value.ok
    /\ fmtCalls = MaxOps - 1

IsSuffixAfterLastSep(m, f) ==
    \E k \in 0..Len(f) :
        /\ m = SubSeq(f, k + 1, Len(f))
        /\ \A n \in DOMAIN m : m[n] # "/" /\ m[n] # "\\"
        /\ k = 0 \/ f[k] = "/" \/ f[k] = "\\"

\* C10: every emitted record's module identifier is the part of the call site's
\* file path after its last '/' or '\', the whole path when it has neither and
\* the empty string when the path ends with one; computing it never reads
\* outside the path.
C10_ModuleFromPath ==
    /\ \A i \in Idx : ~calls[i].panicked
    /\ \A i \in Idx : IsFailure(calls[i].value) => Len(calls[i].records) = 1
    /\ \A n \in DOMAIN sink :
        /\ sink[n].file = file
        /\ IsSuffixAfterLastSep(sink[n].module_path, sink[n].file)

C10_Witness ==
    /\ Len(sink) = 2
    /\ Len(file) = MaxPathLen
    /\ file[Len(file)] = "\\"
    /\ file[1] = "/"
    /\ sink[2].module_path = <<>>

====
